---------------------------- MODULE Spec2Model ----------------------------
(***************************************************************************)
(* Knowledge-graph engine of obsidian-cli-ops: vault ingestion             *)
(* (vault_scanner.py), the SQLite store (db_manager.py), link resolution   *)
(* and graph metrics (graph_builder.py).                                   *)
(*                                                                         *)
(* Strings are sequences of tokens ("d/B.md" is <<"d", "/", "B", ".md">>), *)
(* so that the string operations of the code (replace, endswith, re.sub,   *)
(* pathlib) are computed and not assumed.                                  *)
(***************************************************************************)
EXTENDS Integers, Sequences, FiniteSets, TLC

VARIABLES disk,          \* the filesystem: vault path -> relative path -> file content
          vaults,        \* table vaults: id -> row
          notes,         \* table notes: id -> row
          links,         \* table links, in rowid order
          tags,          \* table tags, in rowid order (tag id = position)
          note_tags,     \* table note_tags: set of <<note id, tag id>>
          graph_metrics, \* table graph_metrics: note id -> row
          scan_history,  \* table scan_history, in rowid order (scan id = position)
          task           \* the scan_vault coroutines: where each is suspended, its locals

vars == <<disk, vaults, notes, links, tags, note_tags, graph_metrics,
          scan_history, task>>

store == <<vaults, notes, links, tags, note_tags, graph_metrics, scan_history>>

\* ------------------------------------------------------------------ bounds
MaxScans == 2

\* The largest limit and the largest threshold of a hub query.
MaxLimit == 2

MaxMinLinks == 2

\* The largest cluster size asked for and the largest radius of a neighborhood.
MaxMinSize == 3

MaxRadius == 2

\* ----------------------------------------------------------------- strings
NULL == <<"NULL">>

Str(tok) == <<tok>>

Last(s) == s[Len(s)]

Front(s) == SubSeq(s, 1, Len(s) - 1)

Range(s) == {s[i] : i \in 1..Len(s)}

\* Position of the first token of s that is in set, or 0.
RECURSIVE FirstIn(_, _, _)
FirstIn(s, set, i) ==
    IF i > Len(s) THEN 0
    ELSE IF s[i] \in set THEN i
    ELSE FirstIn(s, set, i + 1)

\* Position of the last token of s that is in set, or 0.
RECURSIVE LastIn(_, _, _)
LastIn(s, set, i) ==
    IF i < 1 THEN 0
    ELSE IF s[i] \in set THEN i
    ELSE LastIn(s, set, i - 1)

\* str.strip(): leading and trailing whitespace removed.
RECURSIVE Strip(_)
Strip(s) ==
    IF s = <<>> THEN s
    ELSE IF s[1] = " " THEN Strip(Tail(s))
    ELSE IF Last(s) = " " THEN Strip(Front(s))
    ELSE s

\* str.replace('.md', ''): every occurrence removed, wherever it stands.
ReplaceMd(s) == SelectSeq(s, LAMBDA t : t # ".md")

\* re.sub(r'[#^].*$', '', s): cut at the first '#' or '^'.
StripAnchor(s) ==
    LET k == FirstIn(s, {"#", "^"}, 1)
    IN  IF k = 0 THEN s ELSE SubSeq(s, 1, k - 1)

\* pathlib: Path(p).name, the part after the last separator.
PathName(p) ==
    LET k == LastIn(p, {"/"}, Len(p))
    IN  SubSeq(p, k + 1, Len(p))

\* pathlib: Path(p).stem, the name without its last suffix.
PathStem(p) ==
    LET n == PathName(p)
    IN  IF Len(n) > 1 /\ Last(n) = ".md" THEN Front(n) ELSE n

\* pathlib: str(Path(p).parent); "." for a path without a directory.
PathParent(p) ==
    LET k == LastIn(p, {"/"}, Len(p))
    IN  IF k = 0 THEN Str(".") ELSE SubSeq(p, 1, k - 1)

\* pathlib: str(Path(dir) / t); a "." directory and an empty t leave no trace.
PathJoin(dir, t) ==
    IF t = <<>> THEN dir
    ELSE IF dir = Str(".") THEN t
    ELSE dir \o Str("/") \o t

\* Byte order of the tokens, for ORDER BY title (BINARY collation).
TokRank(t) ==
    CASE t = " "  -> 1
      [] t = "#"  -> 2
      [] t = "."  -> 3
      [] t = ".md" -> 4
      [] t = "/"  -> 5
      [] t = "A"  -> 6
      [] t = "B"  -> 7
      [] t = "Missing" -> 8
      [] t = "T"  -> 9
      [] t = "^"  -> 10
      [] t = "d"  -> 11
      [] t = "e"  -> 12
      [] t = "h"  -> 13
      [] OTHER    -> 14

RECURSIVE StrLess(_, _)
StrLess(a, b) ==
    IF b = <<>> THEN FALSE
    ELSE IF a = <<>> THEN TRUE
    ELSE IF a[1] = b[1] THEN StrLess(Tail(a), Tail(b))
    ELSE TokRank(a[1]) < TokRank(b[1])


\* ------------------------------------------------------------- filesystem
\* The vault directories and the note files that may exist in each.
VaultPaths == {<<"/", "v1">>, <<"/", "v2">>}

pA == <<"A", ".md">>

pdB == <<"d", "/", "B", ".md">>

pdeB == <<"d", "/", "e", "/", "B", ".md">>

RelPaths == {pA, pdB, pdeB}

\* A note file under a hidden directory of the vault.
pH == <<".h", "/", "C", ".md">>

\* A vault whose own location has a hidden directory.
HiddenVault == <<"/", ".h", "/", "v3">>

\* The display names a caller may give a vault; None stands for no name.
VaultNames == {NULL, Str("n")}

\* The vaults that are registered by register_vault as well as by a scan.
Registered == {<<"/", "v1">>}

Wikilink(target) == [target |-> target, display |-> NULL]

\* What a file holds, as far as MarkdownParser reads it.
Content(c) ==
    LET plain == [readable |-> TRUE, fm_title |-> NULL, heading |-> NULL,
                  fm_tags |-> {}, inline_tags |-> {}, wikilinks |-> <<>>]
    IN  CASE c = "plain" -> plain
          [] c = "linked" ->
                [plain EXCEPT !.wikilinks = <<Wikilink(<<"B">>),
                                              Wikilink(<<"T">>),
                                              Wikilink(<<"Missing">>),
                                              Wikilink(<<"d", "/", "B", ".md", "#", "h">>)>>,
                              !.fm_tags = {"t"}, !.inline_tags = {"t"}]
          [] c = "titled" ->
                [plain EXCEPT !.fm_title = <<"T">>, !.heading = <<"h">>,
                              !.wikilinks = <<Wikilink(<<"e", "/", "B">>)>>]
          [] c = "self" ->
                [plain EXCEPT !.heading = <<"T">>,
                              !.wikilinks = <<Wikilink(<<"A">>)>>]
          [] c = "garbled" -> [plain EXCEPT !.readable = FALSE]

Absent == "absent"

Files(a, b, c) == (pA :> a) @@ (pdB :> b) @@ (pdeB :> c) @@ (pH :> "plain")

\* The states of each vault directory: the files it holds.
VaultDisks(v) ==
    IF v = <<"/", "v1">>
    THEN {Files("linked", "titled", "plain"),
          Files("garbled", "plain", Absent),
          Files(Absent, Absent, Absent)}
    ELSE {Files("self", Absent, Absent)}

Disks == {d \in [VaultPaths -> UNION {VaultDisks(v) : v \in VaultPaths}] :
            \A v \in VaultPaths : d[v] \in VaultDisks(v)}

\* p.parts of a path: the pieces between separators.
RECURSIVE Parts(_)
Parts(p) ==
    LET k == FirstIn(p, {"/"}, 1)
    IN  IF p = <<>> THEN <<>>
        ELSE IF k = 0 THEN <<p>>
        ELSE IF k = 1 THEN Parts(Tail(p))
        ELSE <<SubSeq(p, 1, k - 1)>> \o Parts(SubSeq(p, k + 1, Len(p)))

DotTokens == {".", ".md", ".obsidian", ".h"}

\* any(part.startswith('.') for part in p.parts)
HasHiddenPart(p) == \E i \in 1..Len(Parts(p)) : Parts(p)[i][1] \in DotTokens

\* A vault with more files than one batch holds, all of them plain notes,
\* which are not edited.
BigFiles == 51

BigVault == <<"/", "big">>

\* The j-th file of the big vault.
BigPath(j) == [i \in 1..j |-> "d"] \o Str(".md")

\* The files of the big vault in the order rglob lists them.
BigList == [j \in 1..BigFiles |-> BigPath(j)]

\* The files under a path: those of the disk for the vaults that are edited,
\* one note for the vault at the hidden location, none elsewhere.
FilesAt(v) ==
    IF v \in VaultPaths THEN disk[v]
    ELSE IF v = HiddenVault THEN Files("plain", Absent, Absent)
    ELSE IF v = BigVault THEN [p \in {BigPath(j) : j \in 1..BigFiles} |-> "plain"]
    ELSE [p \in RelPaths \cup {pH} |-> Absent]

\* vault_path.rglob('*.md') without the paths that have a hidden part; the
\* parts are those of the whole path, the vault's own directories included.
MdFiles(v) ==
    {p \in DOMAIN FilesAt(v) : /\ FilesAt(v)[p] # Absent
                               /\ Last(p) = ".md"
                               /\ ~HasHiddenPart(v \o Str("/") \o p)}

\* The orders in which a set can be listed.
Orders(S) == {o \in [1..Cardinality(S) -> S] : \A x \in S : \E i \in DOMAIN o : o[i] = x}

\* ------------------------------------------------------------------ parser
\* MarkdownParser._extract_title: front matter, first heading, file name.
ExtractTitle(p, c) ==
    IF Content(c).fm_title # NULL THEN Content(c).fm_title
    ELSE IF Content(c).heading # NULL THEN Strip(Content(c).heading)
    ELSE PathStem(p)

\* MarkdownParser._extract_tags: a set, front matter and inline tags together.
ExtractTags(c) == Content(c).fm_tags \cup Content(c).inline_tags

\* MarkdownParser._extract_wikilinks: (target, display) in document order.
ExtractWikilinks(c) ==
    [i \in 1..Len(Content(c).wikilinks) |->
        [target  |-> Strip(Content(c).wikilinks[i].target),
         display |-> Content(c).wikilinks[i].display]]

\* -------------------------------------------------------------------- ids
\* _generate_id: the hash is a function of the text and nothing else; no two
\* texts of the model share a hash.
GenerateId(text) == <<"id">> \o text

HashContent(c) == <<"sha256", c>>

VaultId(v) == GenerateId(v)

NoteId(vault_id, p) == GenerateId(vault_id \o Str(":") \o p)

VaultIds == {VaultId(v) : v \in VaultPaths}

\* ------------------------------------------------------------------ schema
\* What the tables do with the rows that hang on a row that INSERT OR REPLACE
\* rewrites.  The schema file is not among the sources; these follow the
\* data model of the specification.

\* A vault is updated in place: its notes stay.
NotesOnVaultReplace(ns, vault_id) == ns

\* The scan history is append-only.
ScansOnVaultReplace(sh, vault_id) == sh

\* Re-ingesting a note replaces its outgoing references: the old ones go.
LinksOnNoteReplace(ls, note_id) ==
    SelectSeq(ls, LAMBDA l : l.source_note_id # note_id)

\* Tag associations are upserted: the old ones stay.
NoteTagsOnNoteReplace(nt, note_id) == nt

\* The metrics row of a replaced note removed with the note row.
MetricsOnNoteReplace_cascade(gm, note_id) ==
    [n \in DOMAIN gm \ {note_id} |-> gm[n]]

\* The metrics row is made at note creation and changed by a metrics pass only.
MetricsOnNoteReplace(gm, note_id) == gm

\* The column defaults of a new graph_metrics row.
ZeroMetrics ==
    [pagerank |-> "0.0", in_degree |-> 0, out_degree |-> 0, betweenness |-> "0.0",
     closeness |-> "0.0", clustering_coefficient |-> "0.0", computed_at |-> NULL]

\* ------------------------------------------------------------------- store
\* A table keyed by its primary key, as a function; Put inserts or overwrites.
Put(table, key, row) ==
    [k \in DOMAIN table \cup {key} |-> IF k = key THEN row ELSE table[k]]

\* The tables an operation reads and writes, passed along as one value.
Tables ==
    [vaults |-> vaults, notes |-> notes, links |-> links, tags |-> tags,
     note_tags |-> note_tags, graph_metrics |-> graph_metrics,
     scan_history |-> scan_history]

\* add_vault as a replace that takes the notes of the vault with the old row.
add_vault_cascade(db, name, path) ==
    [db EXCEPT
       !.vaults = Put(db.vaults, GenerateId(path),
                      [name |-> name, path |-> path, last_scanned |-> NULL]),
       !.notes = [n \in {k \in DOMAIN db.notes : db.notes[k].vault_id # GenerateId(path)}
                    |-> db.notes[n]]]

\* DatabaseManager.add_vault: INSERT OR REPLACE INTO vaults.
add_vault(db, name, path) ==
    LET vault_id == GenerateId(path)
    IN  [db EXCEPT
           !.vaults = Put(db.vaults, vault_id,
                          [name |-> name, path |-> path, last_scanned |-> NULL]),
           !.notes = NotesOnVaultReplace(db.notes, vault_id),
           !.scan_history = ScansOnVaultReplace(db.scan_history, vault_id)]

\* DatabaseManager.update_vault_scan_time.
update_vault_scan_time(db, vault_id) ==
    IF vault_id \in DOMAIN db.vaults
    THEN [db EXCEPT !.vaults[vault_id].last_scanned = <<"CURRENT_TIMESTAMP">>]
    ELSE db

\* add_note with the id generated from the title in place of the path.
add_note_by_title(db, vault_id, path, title, content) ==
    [db EXCEPT
       !.notes = Put(db.notes, NoteId(vault_id, title),
                     [vault_id |-> vault_id, path |-> path, title |-> title,
                      content_hash |-> HashContent(content)]),
       !.graph_metrics = IF NoteId(vault_id, title) \in DOMAIN db.graph_metrics
                         THEN db.graph_metrics
                         ELSE Put(db.graph_metrics, NoteId(vault_id, title), ZeroMetrics)]

\* DatabaseManager.add_note: INSERT OR REPLACE INTO notes, then
\* INSERT OR IGNORE INTO graph_metrics.
add_note(db, vault_id, path, title, content) ==
    LET note_id == NoteId(vault_id, path)
        existed == note_id \in DOMAIN db.notes
        row     == [vault_id |-> vault_id, path |-> path, title |-> title,
                    content_hash |-> HashContent(content)]
        gm      == IF existed THEN MetricsOnNoteReplace(db.graph_metrics, note_id)
                   ELSE db.graph_metrics
    IN  [db EXCEPT
           !.notes = Put(db.notes, note_id, row),
           !.links = IF existed THEN LinksOnNoteReplace(db.links, note_id)
                     ELSE db.links,
           !.note_tags = IF existed THEN NoteTagsOnNoteReplace(db.note_tags, note_id)
                         ELSE db.note_tags,
           !.graph_metrics = IF note_id \in DOMAIN gm THEN gm
                             ELSE Put(gm, note_id, ZeroMetrics)]

\* DatabaseManager.get_note_by_path: the row, or None; as the set of the
\* rows found.
\* get_note_by_path looking the note up by its path alone.
get_note_by_path_only(db, vault_id, path) ==
    IF GenerateId(path) \in DOMAIN db.notes
    THEN {db.notes[GenerateId(path)]}
    ELSE {}

get_note_by_path(db, vault_id, path) ==
    IF NoteId(vault_id, path) \in DOMAIN db.notes
    THEN {db.notes[NoteId(vault_id, path)]}
    ELSE {}

\* add_link with the display text written in the target column.
add_link_swapped(db, source_note_id, target_path, link_text) ==
    [db EXCEPT !.links = Append(db.links,
        [source_note_id |-> source_note_id, target_note_id |-> NULL,
         target_path |-> link_text, link_type |-> "internal",
         link_text |-> target_path])]

\* add_link that classifies at once: broken when no note of the vault has
\* the target as its title yet.
add_link_eager(db, source_note_id, target_path, link_text) ==
    [db EXCEPT !.links = Append(db.links,
        [source_note_id |-> source_note_id, target_note_id |-> NULL,
         target_path |-> target_path,
         link_type |-> IF \E n \in DOMAIN db.notes : db.notes[n].title = target_path
                       THEN "internal" ELSE "broken",
         link_text |-> link_text])]

\* DatabaseManager.add_link: a new row, unresolved, typed internal for now.
add_link(db, source_note_id, target_path, link_text) ==
    [db EXCEPT !.links = Append(db.links,
        [source_note_id |-> source_note_id, target_note_id |-> NULL,
         target_path |-> target_path, link_type |-> "internal",
         link_text |-> link_text])]

\* Position of x in the sequence s, or 0.
IndexOf(s, x) == IF x \in Range(s) THEN CHOOSE i \in 1..Len(s) : s[i] = x ELSE 0

\* add_tag as a plain INSERT: a row for every call.
add_tag_always(db, tag) == [db EXCEPT !.tags = Append(db.tags, tag)]

\* DatabaseManager.add_tag: INSERT OR IGNORE INTO tags.
add_tag(db, tag) ==
    IF tag \in Range(db.tags) THEN db ELSE [db EXCEPT !.tags = Append(db.tags, tag)]

\* DatabaseManager.add_note_tag: the tag, then INSERT OR IGNORE INTO note_tags.
add_note_tag(db, note_id, tag) ==
    LET db1 == add_tag(db, tag)
    IN  [db1 EXCEPT !.note_tags = db1.note_tags \cup {<<note_id, IndexOf(db1.tags, tag)>>}]

\* DatabaseManager.start_scan: a new scan_history row, status running.
start_scan(db, vault_id) ==
    [db EXCEPT !.scan_history = Append(db.scan_history,
        [vault_id |-> vault_id, status |-> "running", notes_scanned |-> 0,
         notes_added |-> 0, notes_updated |-> 0, notes_deleted |-> 0,
         error_message |-> NULL])]

\* DatabaseManager.complete_scan.
\* fail_scan without the message.
fail_scan_status(db, scan_id, error_message) ==
    IF scan_id \in DOMAIN db.scan_history
    THEN [db EXCEPT !.scan_history[scan_id] = [@ EXCEPT !.status = "failed"]]
    ELSE db

fail_scan(db, scan_id, error_message) ==
    IF scan_id \in DOMAIN db.scan_history
    THEN [db EXCEPT !.scan_history[scan_id] =
            [@ EXCEPT !.status = "failed", !.error_message = error_message]]
    ELSE db

complete_scan(db, scan_id, scanned, added, updated, deleted) ==
    IF scan_id \in DOMAIN db.scan_history
    THEN [db EXCEPT !.scan_history[scan_id] =
            [@ EXCEPT !.status = "completed", !.notes_scanned = scanned,
                      !.notes_added = added, !.notes_updated = updated,
                      !.notes_deleted = deleted]]
    ELSE db

\* DatabaseManager.list_notes(vault_id): the ids of the vault's notes.
VaultNotes(ns, vault_id) == {n \in DOMAIN ns : ns[n].vault_id = vault_id}

\* ORDER BY title: the listings the query can give; rows with equal titles
\* come in either order.
list_notes(ns, vault_id) ==
    {o \in Orders(VaultNotes(ns, vault_id)) :
        \A i, j \in DOMAIN o : i < j => ~StrLess(ns[o[j]].title, ns[o[i]].title)}

\* DatabaseManager.get_outgoing_links: the positions of the note's link rows.
get_outgoing_links(ls, note_id) == {i \in DOMAIN ls : ls[i].source_note_id = note_id}

\* ----------------------------------------------------------------- scanner
BatchSize == 50

Tasks == {"t1"}

Idle == [pc |-> "idle"]

ZeroStats ==
    [notes_scanned |-> 0, notes_added |-> 0, notes_updated |-> 0,
     links_added |-> 0, tags_added |-> 0]

\* The tags of a note, one add_note_tag each.
RECURSIVE AddNoteTags(_, _, _)
AddNoteTags(db, note_id, ts) ==
    IF ts = {} THEN db
    ELSE LET tag == CHOOSE x \in ts : TRUE
         IN  AddNoteTags(add_note_tag(db, note_id, tag), note_id, ts \ {tag})

\* The wikilinks of a note, one add_link each, in document order.
RECURSIVE AddLinks(_, _, _)
AddLinks(db, note_id, ws) ==
    IF ws = <<>> THEN db
    ELSE AddLinks(add_link(db, note_id, ws[1].target, ws[1].display), note_id, Tail(ws))

\* The body of the loop with every file counted as added.
ProcessFile_added(st, vault_path, vault_id, rel) ==
    LET c       == FilesAt(vault_path)[rel]
        note_id == NoteId(vault_id, rel)
        db1     == add_note(st.db, vault_id, rel, ExtractTitle(rel, c), c)
        db2     == AddNoteTags(db1, note_id, ExtractTags(c))
        db3     == AddLinks(db2, note_id, ExtractWikilinks(c))
    IN  IF c = Absent \/ ~Content(c).readable THEN st
        ELSE [db    |-> db3,
              stats |-> [st.stats EXCEPT
                  !.notes_added   = @ + 1,
                  !.notes_scanned = @ + 1,
                  !.tags_added    = @ + Cardinality(ExtractTags(c)),
                  !.links_added   = @ + Len(ExtractWikilinks(c))]]

\* The body of the loop over a batch, for one file: parse, upsert the note,
\* count it, add its tags and links.  A file that cannot be read or parsed
\* raises inside the try and is passed over.
ProcessFile(st, vault_path, vault_id, rel) ==
    LET c        == FilesAt(vault_path)[rel]
        existing == get_note_by_path(st.db, vault_id, rel)
        note_id  == NoteId(vault_id, rel)
        db1      == add_note(st.db, vault_id, rel, ExtractTitle(rel, c), c)
        db2      == AddNoteTags(db1, note_id, ExtractTags(c))
        db3      == AddLinks(db2, note_id, ExtractWikilinks(c))
    IN  IF c = Absent \/ ~Content(c).readable THEN st
        ELSE [db    |-> db3,
              stats |-> [st.stats EXCEPT
                  !.notes_updated = IF existing # {} THEN @ + 1 ELSE @,
                  !.notes_added   = IF existing # {} THEN @ ELSE @ + 1,
                  !.notes_scanned = @ + 1,
                  !.tags_added    = @ + Cardinality(ExtractTags(c)),
                  !.links_added   = @ + Len(ExtractWikilinks(c))]]

\* The loop over a batch left at the first file that fails.
\* The tags of a file in the order the parser lists them.
TagSeq(c) == CHOOSE o \in Orders(ExtractTags(c)) : TRUE

\* The first n tags of a note, one add_note_tag each.
RECURSIVE AddTagsUntil(_, _, _, _)
AddTagsUntil(db, note_id, ts, n) ==
    IF ts = <<>> \/ n = 0 THEN db
    ELSE AddTagsUntil(add_note_tag(db, note_id, ts[1]), note_id, Tail(ts), n - 1)

\* The database calls that processing a file makes: add_note, an
\* add_note_tag for each tag, an add_link for each wikilink.
NumCalls(c) == 1 + Len(TagSeq(c)) + Len(ExtractWikilinks(c))

\* The body of the loop for one file of which the call after the first k
\* calls raises: each call before it has committed on its own connection,
\* the call that raises is rolled back, the except branch passes on.
ProcessFileUntil(db, vault_path, vault_id, rel, k) ==
    LET c       == FilesAt(vault_path)[rel]
        note_id == NoteId(vault_id, rel)
        nt      == IF k - 1 < Len(TagSeq(c)) THEN k - 1 ELSE Len(TagSeq(c))
        nl      == IF k - 1 - nt < Len(ExtractWikilinks(c)) THEN k - 1 - nt
                   ELSE Len(ExtractWikilinks(c))
        db1     == add_note(db, vault_id, rel, ExtractTitle(rel, c), c)
        db2     == AddTagsUntil(db1, note_id, TagSeq(c), nt)
    IN  IF k = 0 THEN db
        ELSE AddLinks(db2, note_id, SubSeq(ExtractWikilinks(c), 1, nl))

RECURSIVE ProcessBatch_abort(_, _, _, _)
ProcessBatch_abort(st, vault_path, vault_id, batch) ==
    IF batch = <<>> THEN st
    ELSE IF ProcessFile(st, vault_path, vault_id, batch[1]) = st THEN st
    ELSE ProcessBatch_abort(ProcessFile(st, vault_path, vault_id, batch[1]),
                            vault_path, vault_id, Tail(batch))

\* The loop over the files of a batch, in their order: the files of the
\* first half, then from what they leave those of the second half.
RECURSIVE ProcessBatch(_, _, _, _)
ProcessBatch(st, vault_path, vault_id, batch) ==
    IF batch = <<>> THEN st
    ELSE IF Len(batch) = 1 THEN ProcessFile(st, vault_path, vault_id, batch[1])
    ELSE LET h == Len(batch) \div 2
         IN  CHOOSE r \in
                 {ProcessBatch(half, vault_path, vault_id, SubSeq(batch, h + 1, Len(batch))) :
                     half \in {ProcessBatch(st, vault_path, vault_id, SubSeq(batch, 1, h))}} :
                 TRUE

Min(a, b) == IF a < b THEN a ELSE b

\* The slice without its upper end: md_files[i:].
Batch_rest(md_files, i) == SubSeq(md_files, i + 1, Len(md_files))

\* md_files[i:i + batch_size], i counted from 0.
Batch(md_files, i) == SubSeq(md_files, i + 1, Min(i + BatchSize, Len(md_files)))

\* What the tables hold of notes, references and tags; the references as a
\* bag of rows, their rowids left out.
LinkBag(ls) == [r \in Range(ls) |-> Cardinality({i \in DOMAIN ls : ls[i] = r})]

View(db) ==
    [notes |-> db.notes, links |-> LinkBag(db.links), tags |-> db.tags,
     note_tags |-> db.note_tags]

SetTables(db) ==
    /\ vaults' = db.vaults
    /\ notes' = db.notes
    /\ links' = db.links
    /\ tags' = db.tags
    /\ note_tags' = db.note_tags
    /\ graph_metrics' = db.graph_metrics
    /\ scan_history' = db.scan_history

\* The end of scan_vault, after the loop: the vault's scan time, the scan
\* record completed, the statistics returned.
Finish(t, db, vault_path, vault_id, scan_id, stats) ==
    LET db1 == update_vault_scan_time(db, vault_id)
        db2 == complete_scan(db1, scan_id, stats.notes_scanned, stats.notes_added,
                             stats.notes_updated, 0)
    IN  /\ SetTables(db2)
        /\ task' = [task EXCEPT ![t] = Idle]

\* scan_vault up to its first suspension: the vault registered, the scan
\* record started, the files listed, the first batch processed.  With no
\* file the loop is not entered and the call runs to its end.
ScanBegin(t, v, name, md_files) ==
    LET vault_id == VaultId(v)
        db1      == add_vault(Tables, IF name = NULL THEN PathName(v) ELSE name, v)
        db2      == start_scan(db1, vault_id)
        scan_id  == Len(db2.scan_history)
        st       == ProcessBatch([db |-> db2, stats |-> ZeroStats],
                                 v, vault_id, Batch(md_files, 0))
    IN  /\ task[t].pc = "idle"
        /\ Len(scan_history) < MaxScans
        /\ IF md_files = <<>>
           THEN Finish(t, db2, v, vault_id, scan_id, ZeroStats)
           ELSE /\ SetTables(st.db)
                /\ task' = [task EXCEPT ![t] =
                       [pc |-> "suspended", vault_path |-> v, vault_id |-> vault_id,
                        scan_id |-> scan_id, md_files |-> md_files, i |-> 0,
                        stats |-> st.stats]]
        /\ UNCHANGED disk

\* scan_vault resumed after asyncio.sleep: the next batch, or the end.
ScanResume(t) ==
    LET k  == task[t]
        i  == k.i + BatchSize
        st == ProcessBatch([db |-> Tables, stats |-> k.stats],
                           k.vault_path, k.vault_id, Batch(k.md_files, i))
    IN  /\ k.pc = "suspended"
        /\ IF i < Len(k.md_files)
           THEN /\ SetTables(st.db)
                /\ task' = [task EXCEPT ![t] =
                       [k EXCEPT !.i = i, !.stats = st.stats]]
           ELSE Finish(t, Tables, k.vault_path, k.vault_id, k.scan_id, k.stats)
        /\ UNCHANGED disk

\* ---------------------------------------------------------------- resolver
\* LinkResolver.build_note_cache, over the listing of the vault's notes: the
\* path without '.md' and the title are written whatever is there, the file
\* name only where the key is free.
RECURSIVE build_note_cache(_, _, _)
build_note_cache(cache, ns, listing) ==
    IF listing = <<>> THEN cache
    ELSE LET note_id  == listing[1]
             c1       == Put(cache, ReplaceMd(ns[note_id].path), note_id)
             c2       == Put(c1, ns[note_id].title, note_id)
             filename == PathStem(ns[note_id].path)
             c3       == IF filename \in DOMAIN c2 THEN c2 ELSE Put(c2, filename, note_id)
         IN  build_note_cache(c3, ns, Tail(listing))

\* resolve_link without the second and third lookups: the target as written.
resolve_link_exact(cache, target_path, source_note) ==
    IF Strip(StripAnchor(target_path)) \in DOMAIN cache
    THEN cache[Strip(StripAnchor(target_path))]
    ELSE NULL

\* LinkResolver.resolve_link: the note id, or None for a broken link.
resolve_link(cache, target_path, source_note) ==
    LET t1 == Strip(StripAnchor(target_path))
        t2 == IF t1 # <<>> /\ Last(t1) = ".md" THEN Front(t1) ELSE t1
        relative_path == PathJoin(PathParent(source_note.path), t2)
    IN  IF t1 \in DOMAIN cache THEN cache[t1]
        ELSE IF t2 # t1 /\ t2 \in DOMAIN cache THEN cache[t2]
        ELSE IF relative_path \in DOMAIN cache THEN cache[relative_path]
        ELSE NULL

\* The UPDATE of one link row in resolve_all_links: the target and the type
\* of a resolved link; the type alone of a broken one.
ResolvedRow(l, resolved_id) ==
    IF resolved_id # NULL
    THEN [l EXCEPT !.target_note_id = resolved_id, !.link_type = "internal"]
    ELSE [l EXCEPT !.link_type = "broken"]

\* LinkResolver.resolve_all_links, for one listing of the vault's notes.
resolve_all_links(db, vault_id, listing) ==
    LET cache == build_note_cache(<<>>, db.notes, listing)
        mine  == {i \in DOMAIN db.links :
                    db.links[i].source_note_id \in VaultNotes(db.notes, vault_id)}
        res(i) == resolve_link(cache, db.links[i].target_path,
                               db.notes[db.links[i].source_note_id])
    IN  [db    |-> [db EXCEPT !.links =
                       [i \in DOMAIN db.links |->
                           IF i \in mine THEN ResolvedRow(db.links[i], res(i))
                           ELSE db.links[i]]],
         stats |-> [total_links |-> Cardinality(mine),
                    resolved |-> Cardinality({i \in mine : res(i) # NULL}),
                    broken   |-> Cardinality({i \in mine : res(i) = NULL})]]

ResolveAll(vault_id) ==
    \E listing \in list_notes(notes, vault_id) :
        LET r == resolve_all_links(Tables, vault_id, listing)
        IN  /\ SetTables(r.db)
            /\ UNCHANGED <<disk, task>>

\* ------------------------------------------------------------------- graph
\* GraphBuilder.build_graph: a node per note of the vault; an edge per pair
\* (source, target) of the link rows typed internal with a target, of the
\* whole links table; add_edge adds the end points it does not find.
build_graph(db, vault_id) ==
    LET edges == {<<db.links[i].source_note_id, db.links[i].target_note_id>> :
                    i \in {j \in DOMAIN db.links :
                             /\ db.links[j].link_type = "internal"
                             /\ db.links[j].target_note_id # NULL}}
    IN  [nodes |-> VaultNotes(db.notes, vault_id)
                     \cup {e[1] : e \in edges} \cup {e[2] : e \in edges},
         edges |-> edges]

in_degree(g, n) == Cardinality({e \in g.edges : e[2] = n})

out_degree(g, n) == Cardinality({e \in g.edges : e[1] = n})

\* networkx.density of a directed graph, as the fraction num / den.
density(g) ==
    LET n == Cardinality(g.nodes)
        m == Cardinality(g.edges)
    IN  IF m = 0 \/ n <= 1 THEN [num |-> 0, den |-> 1]
        ELSE [num |-> m, den |-> n * (n - 1)]

Algorithms == {"pagerank", "betweenness", "closeness", "clustering_coefficient"}

\* The algorithms that may raise in one metrics pass.
FailureCases == {{}, {"pagerank"}}

\* AlgoValue with one except branch around the four computations: a failure
\* of one zeroes them all.
AlgoValue_together(alg, failed) == IF failed # {} THEN "0.0" ELSE "nx"

\* The result of a networkx algorithm for a node, or the 0.0 of the except branch.
AlgoValue(alg, failed) == IF alg \in failed THEN "0.0" ELSE "nx"

\* calculate_metrics with the two degrees written in each other's column.
calculate_metrics_swapped(db, vault_id, failed) ==
    LET g == build_graph(db, vault_id)
        row(n) == [pagerank |-> AlgoValue("pagerank", failed),
                   in_degree |-> out_degree(g, n),
                   out_degree |-> in_degree(g, n),
                   betweenness |-> AlgoValue("betweenness", failed),
                   closeness |-> AlgoValue("closeness", failed),
                   clustering_coefficient |-> AlgoValue("clustering_coefficient", failed),
                   computed_at |-> <<"CURRENT_TIMESTAMP">>]
    IN  IF Cardinality(g.nodes) = 0
        THEN [db |-> db, stats |-> [notes |-> 0]]
        ELSE [db |-> [db EXCEPT !.graph_metrics =
                        [n \in DOMAIN db.graph_metrics |->
                            IF n \in g.nodes THEN row(n) ELSE db.graph_metrics[n]]],
              stats |-> [notes |-> Cardinality(g.nodes),
                         edges |-> Cardinality(g.edges),
                         density |-> density(g)]]

\* GraphBuilder.calculate_metrics: the graph, its statistics, and the UPDATE
\* of the graph_metrics row of every node of the graph.
calculate_metrics(db, vault_id, failed) ==
    LET g == build_graph(db, vault_id)
        row(n) == [pagerank |-> AlgoValue("pagerank", failed),
                   in_degree |-> in_degree(g, n),
                   out_degree |-> out_degree(g, n),
                   betweenness |-> AlgoValue("betweenness", failed),
                   closeness |-> AlgoValue("closeness", failed),
                   clustering_coefficient |-> AlgoValue("clustering_coefficient", failed),
                   computed_at |-> <<"CURRENT_TIMESTAMP">>]
    IN  IF Cardinality(g.nodes) = 0
        THEN [db |-> db, stats |-> [notes |-> 0]]
        ELSE [db |-> [db EXCEPT !.graph_metrics =
                        [n \in DOMAIN db.graph_metrics |->
                            IF n \in g.nodes THEN row(n) ELSE db.graph_metrics[n]]],
              stats |-> [notes |-> Cardinality(g.nodes),
                         edges |-> Cardinality(g.edges),
                         density |-> density(g)]]

ComputeMetrics(vault_id) ==
    \E failed \in FailureCases :
        LET r == calculate_metrics(Tables, vault_id, failed)
        IN  /\ SetTables(r.db)
            /\ UNCHANGED <<disk, task>>

\* ---------------------------------------------------------------- analysis
\* DiGraph.successors and DiGraph.predecessors.
successors(g, n) == {e[2] : e \in {x \in g.edges : x[1] = n}}

predecessors(g, n) == {e[1] : e \in {x \in g.edges : x[2] = n}}

\* DiGraph.subgraph: the nodes of the graph among nodes, and the edges
\* between them.
subgraph(g, nodes) ==
    [nodes |-> g.nodes \cap nodes,
     edges |-> {e \in g.edges : e[1] \in nodes /\ e[2] \in nodes}]

\* nx.DiGraph(): the graph without nodes.
EmptyGraph == [nodes |-> {}, edges |-> {}]

\* DiGraph.to_undirected, as the graph with every edge in both directions.
to_undirected(g) ==
    [nodes |-> g.nodes, edges |-> g.edges \cup {<<e[2], e[1]>> : e \in g.edges}]

\* The loop of get_note_neighborhood: depth times, the predecessors and the
\* successors of the nodes found join them.
RECURSIVE Neighborhood(_, _, _)
Neighborhood(g, nodes, depth) ==
    IF depth = 0 THEN nodes
    ELSE Neighborhood(g,
             nodes \cup UNION {predecessors(g, n) \cup successors(g, n) : n \in nodes},
             depth - 1)

\* The nodes within radius edges of the nodes, each edge followed from its
\* source to its target: the nodes of nx.ego_graph with undirected=False, its
\* default, and of a component search.
RECURSIVE Within(_, _, _)
Within(g, nodes, radius) ==
    IF radius = 0 THEN nodes
    ELSE Within(g, nodes \cup UNION {successors(g, n) : n \in nodes}, radius - 1)

\* nx.connected_components of an undirected graph.
connected_components(g) == {Within(g, {n}, Cardinality(g.nodes)) : n \in g.nodes}

\* GraphBuilder.find_clusters.
find_clusters(db, vault_id, min_size) ==
    {c \in connected_components(to_undirected(build_graph(db, vault_id))) :
        Cardinality(c) >= min_size}

\* GraphAnalyzer.find_clusters: VaultNotFoundError for a vault that is not
\* registered.
GraphAnalyzer_find_clusters(db, vault_id, min_size) ==
    IF vault_id \notin DOMAIN db.vaults
    THEN [raised |-> "VaultNotFoundError", clusters |-> {}]
    ELSE [raised |-> "none", clusters |-> find_clusters(db, vault_id, min_size)]

\* GraphBuilder.get_note_neighborhood: the empty graph for a note that is
\* not there.
get_note_neighborhood(db, note_id, depth) ==
    IF note_id \notin DOMAIN db.notes THEN EmptyGraph
    ELSE LET g == build_graph(db, db.notes[note_id].vault_id)
         IN  IF note_id \notin g.nodes THEN EmptyGraph
             ELSE subgraph(g, Neighborhood(g, {note_id}, depth))

\* GraphAnalyzer.get_ego_graph: ValueError for a note that is not there; else
\* nx.ego_graph(graph, note_id, radius=radius).
get_ego_graph(db, note_id, radius) ==
    IF note_id \notin DOMAIN db.notes
    THEN [raised |-> "ValueError", graph |-> EmptyGraph]
    ELSE LET g == build_graph(db, db.notes[note_id].vault_id)
         IN  IF note_id \notin g.nodes
             THEN [raised |-> "ValueError", graph |-> EmptyGraph]
             ELSE [raised |-> "none",
                   graph |-> subgraph(g, Within(g, {note_id}, radius))]

\* ------------------------------------------------------------------- views
\* The sum of the two degrees kept for a note.
total_degree(db, n) == db.graph_metrics[n].in_degree + db.graph_metrics[n].out_degree

\* The view hub_notes: the notes with their metrics, the most connected
\* first.  The schema file is not among the sources.
hub_notes(db, vault_id) ==
    {n \in VaultNotes(db.notes, vault_id) : n \in DOMAIN db.graph_metrics}

\* The view orphaned_notes: the notes with no link in and none out.
orphaned_notes(db, vault_id) ==
    {n \in hub_notes(db, vault_id) :
        db.graph_metrics[n].in_degree = 0 /\ db.graph_metrics[n].out_degree = 0}

\* DatabaseManager.get_hub_notes: the first limit rows of the view, as the
\* set of the results it may give (rows of equal degree come in any order).
db_get_hub_notes(db, vault_id, limit) ==
    {S \in SUBSET hub_notes(db, vault_id) :
        /\ Cardinality(S) = Min(limit, Cardinality(hub_notes(db, vault_id)))
        /\ \A n \in S : \A m \in hub_notes(db, vault_id) \ S :
              total_degree(db, n) >= total_degree(db, m)}

\* DatabaseManager.get_orphaned_notes(vault_id): it has no other parameter.
get_orphaned_notes(db, vault_id) == orphaned_notes(db, vault_id)

\* GraphAnalyzer.get_hub_notes: the rows of the store with min_links or more
\* links; nothing for a vault that is not registered.
get_hub_notes(db, vault_id, limit, min_links) ==
    IF vault_id \notin DOMAIN db.vaults THEN {{}}
    ELSE {{n \in S : total_degree(db, n) >= min_links} :
             S \in db_get_hub_notes(db, vault_id, limit)}

\* GraphAnalyzer.get_orphan_notes: nothing for a vault that is not
\* registered; else the call get_orphaned_notes(vault_id, limit=limit), which
\* the store's method does not accept: a TypeError, and nothing returned.
get_orphan_notes(db, vault_id, limit) ==
    IF vault_id \notin DOMAIN db.vaults
    THEN [raised |-> "none", notes |-> {}]
    ELSE [raised |-> "TypeError", notes |-> {}]

\* The view broken_links: the link rows typed broken, each with the path of
\* its source note.  The schema file is not among the sources; this follows
\* the specification's getBrokenReferences and the columns the store's
\* query names.
broken_links(db) ==
    {[link |-> i, source_path |-> db.notes[db.links[i].source_note_id].path,
      target_path |-> db.links[i].target_path] :
        i \in {j \in DOMAIN db.links :
                  /\ db.links[j].link_type = "broken"
                  /\ db.links[j].source_note_id \in DOMAIN db.notes}}

\* DatabaseManager.get_broken_links(vault_id): the rows of the view joined
\* with the notes of the vault on the source path.
db_get_broken_links(db, vault_id) ==
    {bl \in broken_links(db) :
        \E n \in DOMAIN db.notes : /\ db.notes[n].vault_id = vault_id
                                   /\ db.notes[n].path = bl.source_path}

\* GraphAnalyzer.get_broken_links: nothing for a vault that is not
\* registered; else the call get_broken_links(vault_id, limit=limit), which
\* the store's method does not accept: a TypeError, and nothing returned.
get_broken_links(db, vault_id, limit) ==
    IF vault_id \notin DOMAIN db.vaults THEN [raised |-> "none", links |-> {}]
    ELSE [raised |-> "TypeError", links |-> {}]

\* ------------------------------------------------------------ other steps
\* VaultManager.register_vault: the vault row, without a scan.
RegisterVault(v, name) ==
    /\ SetTables(add_vault(Tables, IF name = NULL THEN PathName(v) ELSE name, v))
    /\ UNCHANGED <<disk, task>>

\* The user writes, rewrites or deletes note files of a vault.
EditFiles(v, files) ==
    /\ files \in VaultDisks(v)
    /\ files # disk[v]
    /\ disk' = [disk EXCEPT ![v] = files]
    /\ UNCHANGED <<vaults, notes, links, tags, note_tags, graph_metrics,
                   scan_history, task>>

\* ----------------------------------------------------------- vault manager
\* Paths a caller may ask to scan that are no vault: one that does not
\* exist, a file, and a directory without the .obsidian directory.
OtherPaths == {<<"/", "x">>, <<"/", "f">>, <<"/", "d">>}

ScanPaths == VaultPaths \cup {HiddenVault} \cup OtherPaths

\* What the filesystem holds at a path.
PathKind(p) ==
    CASE p = <<"/", "x">> -> "missing"
      [] p = <<"/", "f">> -> "file"
      [] p = <<"/", "d">> -> "dir"
      [] OTHER -> "vault"

\* The note files found under a path: none where there is no vault.
MdFilesAt(v) == IF PathKind(v) = "vault" THEN MdFiles(v) ELSE {}

\* The check of VaultScanner.scan_vault alone: that the path exists.
scan_vault_check_exists(v) ==
    IF PathKind(v) = "missing" THEN "VaultNotFoundError" ELSE "none"

\* The checks of VaultManager.scan_vault before the scan: the error raised,
\* or none.
scan_vault_check(v) ==
    IF PathKind(v) \in {"missing", "file"} THEN "VaultNotFoundError"
    ELSE IF PathKind(v) # "vault" THEN "VaultNotFoundError"
    ELSE "none"

\* A call that ended with an error: the task is idle again and the caller
\* holds the error.
Raised(error, v) == [pc |-> "idle", raised |-> error, vault_path |-> v]

\* VaultManager.scan_vault on a path that fails its checks: the error, and
\* nothing written.
ScanRejected(t, v) ==
    /\ task[t].pc = "idle"
    /\ scan_vault_check(v) # "none"
    /\ task' = [task EXCEPT ![t] = Raised(scan_vault_check(v), v)]
    /\ UNCHANGED <<disk, vaults, notes, links, tags, note_tags, graph_metrics,
                   scan_history>>

\* VaultManager.scan_vault: the checks, then the scanner's scan_vault.
VaultManager_scan_vault(t, v, name, md_files) ==
    IF scan_vault_check(v) = "none"
    THEN ScanBegin(t, v, name, md_files)
    ELSE ScanRejected(t, v)

\* str(e) of the exception a progress callback raises.
CallbackError == <<"callback", " ", "failed">>

\* scan_vault resumed with an exception raised inside its try by the
\* awaited progress callback: the scan record failed with the message, the
\* exception raised again, and VaultManager.scan_vault raising ScanError.
ScanFails(t) ==
    LET k == task[t]
    IN  /\ k.pc = "suspended"
        /\ SetTables(fail_scan(Tables, k.scan_id, CallbackError))
        /\ task' = [task EXCEPT ![t] = Raised("ScanError", k.vault_path)]
        /\ UNCHANGED disk

\* A scan cancelled where it is suspended (the sleep after a batch, or the
\* awaited callback): CancelledError is not an Exception, so the handler
\* "except Exception" of scan_vault does not run, fail_scan is not called, and
\* the error reaches the caller as it is.
ScanCancelled(t) ==
    LET k == task[t]
    IN  /\ k.pc = "suspended"
        /\ task' = [task EXCEPT ![t] = Raised("CancelledError", k.vault_path)]
        /\ UNCHANGED <<disk, vaults, notes, links, tags, note_tags,
                       graph_metrics, scan_history>>

\* VaultManager.get_notes: the call list_notes(vault_id, limit=limit,
\* offset=offset), which the store's method does not accept: a TypeError,
\* and nothing returned, whatever the limit and the offset.
get_notes(db, vault_id, limit, offset) == [raised |-> "TypeError", notes |-> {}]

\* The ScanResult that VaultManager.scan_vault builds from the statistics the
\* scanner returns; the fields it does not pass keep their defaults.
ScanResult(vault_id, vault_path, stats) ==
    [vault_id |-> vault_id, vault_name |-> PathName(vault_path),
     vault_path |-> vault_path, notes_scanned |-> stats.notes_scanned,
     links_found |-> stats.links_added, tags_found |-> 0,
     errors |-> <<>>, warnings |-> <<>>]

\* ScanResult.success
success(result) == Len(result.errors) = 0

\* --------------------------------------------------------------- batches
\* The loop of scan_vault over the batches, for any number of files: what it
\* reports through the progress callback and where it suspends.  The files
\* are numbered; what processing a file writes is left out here.
MaxFiles == 101

NumberedFiles(total) == [j \in 1..total |-> j]

\* await progress_callback(i + len(batch), total_files), when one is given.
Report(reports, callback, md_files, i) ==
    IF callback
    THEN Append(reports, [processed |-> i + Len(Batch(md_files, i)),
                          total |-> Len(md_files)])
    ELSE reports

\* scan_vault up to its first suspension: the first batch, its report, the
\* sleep; with no file the loop is not entered.
LoopBegin(t, total, callback) ==
    LET md_files == NumberedFiles(total)
    IN  /\ task[t].pc = "idle"
        /\ task' = [task EXCEPT ![t] =
              IF total = 0
              THEN [pc |-> "returned", md_files |-> md_files, callback |-> callback,
                    i |-> 0, batches |-> <<>>, reports |-> <<>>, sleeps |-> 0]
              ELSE [pc |-> "suspended", md_files |-> md_files, callback |-> callback,
                    i |-> 0, batches |-> <<Len(Batch(md_files, 0))>>,
                    reports |-> Report(<<>>, callback, md_files, 0), sleeps |-> 1]]
        /\ UNCHANGED <<disk, vaults, notes, links, tags, note_tags, graph_metrics,
                       scan_history>>

\* scan_vault resumed after asyncio.sleep: the next batch, its report and
\* the sleep, or the end of the loop.
LoopResume(t) ==
    LET k == task[t]
        i == k.i + BatchSize
    IN  /\ k.pc = "suspended"
        /\ task' = [task EXCEPT ![t] =
              IF i < Len(k.md_files)
              THEN [k EXCEPT !.i = i,
                             !.batches = Append(@, Len(Batch(k.md_files, i))),
                             !.reports = Report(@, k.callback, k.md_files, i),
                             !.sleeps = @ + 1]
              ELSE [k EXCEPT !.pc = "returned"]]
        /\ UNCHANGED <<disk, vaults, notes, links, tags, note_tags, graph_metrics,
                       scan_history>>

\* ----------------------------------------------------------- specification
Init ==
    /\ disk \in Disks
    /\ vaults = <<>>
    /\ notes = <<>>
    /\ links = <<>>
    /\ tags = <<>>
    /\ note_tags = {}
    /\ graph_metrics = <<>>
    /\ scan_history = <<>>
    /\ task = [t \in Tasks |-> Idle]

Next ==
    \/ \E t \in Tasks, v \in VaultPaths, name \in {NULL} :
          \E md_files \in Orders(MdFiles(v)) : ScanBegin(t, v, name, md_files)
    \/ \E t \in Tasks : ScanResume(t)
    \/ \E vault_id \in VaultIds : ResolveAll(vault_id)
    \/ \E vault_id \in VaultIds : ComputeMetrics(vault_id)
    \/ \E v \in Registered, name \in VaultNames : RegisterVault(v, name)
    \/ \E v \in VaultPaths : \E files \in VaultDisks(v) : EditFiles(v, files)

Spec == Init /\ [][Next]_vars

\* The operations on every path a caller may give: the vault at the hidden
\* location and the calls that end in an error included.
NextE ==
    \/ Next
    \/ \E t \in Tasks, v \in ScanPaths, name \in {NULL} :
          \E md_files \in Orders(MdFilesAt(v)) :
              VaultManager_scan_vault(t, v, name, md_files)
    \/ \E t \in Tasks : ScanFails(t)

SpecE == Init /\ [][NextE]_vars

\* The scans that end in every way: returned, failed, or cancelled where they
\* are suspended.
NextX ==
    \/ Next
    \/ \E t \in Tasks : ScanFails(t)
    \/ \E t \in Tasks : ScanCancelled(t)

SpecX == Init /\ [][NextX]_vars

\* The loop over the batches alone, for every number of files up to MaxFiles.
NextP ==
    \/ \E t \in Tasks, total \in 0..MaxFiles, callback \in BOOLEAN :
          LoopBegin(t, total, callback)
    \/ \E t \in Tasks : LoopResume(t)

SpecP == Init /\ [][NextP]_vars

\* Two callers that scan at the same time: scan_vault has no guard, and a
\* scan that is suspended after a batch may be resumed before or after
\* another one.
Scanners == {"t1", "t2"}

InitC ==
    /\ disk \in Disks
    /\ vaults = <<>>
    /\ notes = <<>>
    /\ links = <<>>
    /\ tags = <<>>
    /\ note_tags = {}
    /\ graph_metrics = <<>>
    /\ scan_history = <<>>
    /\ task = [t \in Scanners |-> Idle]

NextC ==
    \/ \E t \in Scanners, v \in VaultPaths, name \in {NULL} :
          \E md_files \in Orders(MdFiles(v)) : ScanBegin(t, v, name, md_files)
    \/ \E t \in Scanners, name \in {NULL} : ScanBegin(t, BigVault, name, BigList)
    \/ \E t \in Scanners : ScanResume(t)

SpecC == InitC /\ [][NextC]_vars

\* ------------------------------------------------------------------ claims
v1 == <<"/", "v1">>

v2 == <<"/", "v2">>

\* The link rows of a note, in rowid order.
OutRows(ls, note_id) == SelectSeq(ls, LAMBDA l : l.source_note_id = note_id)

\* What a link row keeps of the text: the raw target and the display text.
RefTexts(rows) ==
    [i \in 1..Len(rows) |-> [target |-> rows[i].target_path, display |-> rows[i].link_text]]

\* The link rows an ingest writes for a file: unresolved, typed internal.
FreshRows(note_id, c) ==
    [i \in 1..Len(ExtractWikilinks(c)) |->
        [source_note_id |-> note_id, target_note_id |-> NULL,
         target_path |-> ExtractWikilinks(c)[i].target, link_type |-> "internal",
         link_text |-> ExtractWikilinks(c)[i].display]]

\* The files of a vault that a scan started now would ingest.
Readable(v) == {p \in MdFiles(v) : Content(disk[v][p]).readable}

\* The tables hold the files of the vault as an ingest of them leaves them.
Ingested(v) ==
    \A p \in Readable(v) :
        LET c == disk[v][p]
            n == NoteId(VaultId(v), p)
        IN  /\ n \in DOMAIN notes
            /\ notes[n] = [vault_id |-> VaultId(v), path |-> p,
                           title |-> ExtractTitle(p, c), content_hash |-> HashContent(c)]
            /\ OutRows(links, n) = FreshRows(n, c)
            /\ \A tag \in ExtractTags(c) :
                  tag \in Range(tags) /\ <<n, IndexOf(tags, tag)>> \in note_tags

\* This step is the start of a scan of the vault (its scan record appears).
ScanStarts(v) ==
    /\ Len(scan_history') = Len(scan_history) + 1
    /\ scan_history'[Len(scan_history')].vault_id = VaultId(v)

\* This step is the end of a scan.
ScanEnds == \E t \in Tasks : task[t].pc = "suspended" /\ task'[t].pc = "idle"

\* This step is a register_vault of the vault that changes its row.
Registers(v) ==
    /\ VaultId(v) \in DOMAIN vaults'
    /\ vaults' # vaults
    /\ UNCHANGED <<disk, notes, links, tags, note_tags, graph_metrics, scan_history, task>>

\* Scan records i and j are completed scans of vault v.
Completed(i, v) ==
    /\ i \in DOMAIN scan_history
    /\ scan_history[i].vault_id = VaultId(v)
    /\ scan_history[i].status = "completed"

C2_OneNotePerPath ==
    /\ \A n \in DOMAIN notes :
          /\ n = NoteId(notes[n].vault_id, notes[n].path)
          /\ \E v \in VaultPaths : notes[n].vault_id = GenerateId(v)
    /\ \A n, m \in DOMAIN notes :
          (notes[n].vault_id = notes[m].vault_id /\ notes[n].path = notes[m].path) => n = m

\* C2 witness: a note was ingested twice, with another title the second time.
C2_Witness ==
    /\ Completed(1, v1) /\ Completed(2, v1)
    /\ scan_history[1].notes_added = 3
    /\ scan_history[2].notes_updated = 1
    /\ NoteId(VaultId(v1), pdB) \in DOMAIN notes
    /\ notes[NoteId(VaultId(v1), pdB)].title = <<"B">>

AddVaultStep(v) == VaultId(v) \in DOMAIN vaults /\ (ScanStarts(v) \/ Registers(v))

\* The vault keeps its id and is the one row of its path.
VaultKept(v) ==
    /\ VaultId(v) \in DOMAIN vaults'
    /\ {k \in DOMAIN vaults' : vaults'[k].path = v} = {VaultId(v)}

\* Every note row of the vault is still there.
NotesKept(v) == VaultNotes(notes, VaultId(v)) \subseteq VaultNotes(notes', VaultId(v))

\* Every scan record is still there.
ScansKept == SubSeq(scan_history', 1, Len(scan_history)) = scan_history

\* A reference, whatever its resolution: its source and its text.
RefOf(l) == <<l.source_note_id, l.target_path, l.link_text>>

\* How many rows hold the reference r.
RefCount(ls, r) == Cardinality({i \in DOMAIN ls : RefOf(ls[i]) = r})

\* Every reference row with its source among the notes S is still there.
RefsKept(S) ==
    \A i \in DOMAIN links :
        links[i].source_note_id \in S =>
            RefCount(links', RefOf(links[i])) >= RefCount(links, RefOf(links[i]))

\* The notes that this step ingests again, if it starts a scan of the vault.
Reingested(v) ==
    IF ScanStarts(v) THEN {NoteId(VaultId(v), p) : p \in Readable(v)} ELSE {}

TargetKey(t) ==
    IF Strip(StripAnchor(t)) # <<>> /\ Last(Strip(StripAnchor(t))) = ".md"
    THEN Front(Strip(StripAnchor(t)))
    ELSE Strip(StripAnchor(t))

\* The keys of a note: its path without the extension, its title, its bare
\* file name.
NoteKeys(row) == {Front(row.path), row.title, PathStem(row.path)}

\* The notes of the vault that one of the texts in cands names.
Matching(db, vault_id, cands) ==
    {n \in VaultNotes(db.notes, vault_id) : NoteKeys(db.notes[n]) \cap cands # {}}

\* The rows of the references of the vault.
VaultLinks(db, vault_id) ==
    {i \in DOMAIN db.links : db.links[i].source_note_id \in VaultNotes(db.notes, vault_id)}

\* The references of the vault in db are resolved as Cands says: internal
\* with a target among the notes matching Cands(row), broken when none does.
ResolvedBy(db, vault_id, Cands(_)) ==
    \A i \in VaultLinks(db, vault_id) :
        LET m == Matching(db, vault_id, Cands(db.links[i]))
        IN  IF m # {}
            THEN db.links[i].link_type = "internal" /\ db.links[i].target_note_id \in m
            ELSE db.links[i].link_type = "broken"

\* The one text the claim looks up.
ClaimCands(l) == {TargetKey(l.target_path)}

\* The texts the resolver looks up: the target without anchor, that without
\* a final .md, and that again in the directory of the source note.
CodeCands(l) ==
    {Strip(StripAnchor(l.target_path)), TargetKey(l.target_path),
     PathJoin(PathParent(notes[l.source_note_id].path), TargetKey(l.target_path))}

\* C5, as stated: after resolve_all_links a reference whose target, without
\* anchor and .md, is the path without extension, the title or the file name
\* of a note is internal with such a note as target; every other is broken.
C5_ResolutionCorrect ==
    \A vault_id \in VaultIds : \A listing \in list_notes(notes, vault_id) :
        ResolvedBy(resolve_all_links(Tables, vault_id, listing).db, vault_id, ClaimCands)

\* C5, amended: after resolve_all_links a reference is internal, with a
\* matching note of the vault as target, when its target without the anchor
\* is a key of a note (path without extension, title, file name) as written,
\* without a final .md, or without it and taken in the directory of the
\* source note; every other reference is broken.
C5_ResolutionCorrectWithRelative ==
    \A vault_id \in VaultIds : \A listing \in list_notes(notes, vault_id) :
        ResolvedBy(resolve_all_links(Tables, vault_id, listing).db, vault_id, CodeCands)

\* C5 witness: the references of the vault are resolved; one is broken, and
\* the one written relative to its source note's directory is internal.
C5_Witness ==
    /\ \E i \in DOMAIN links : links[i].link_type = "broken"
    /\ \E i \in DOMAIN links :
          /\ links[i].source_note_id = NoteId(VaultId(v1), pdB)
          /\ links[i].target_path = <<"e", "/", "B">>
          /\ links[i].link_type = "internal"
          /\ links[i].target_note_id = NoteId(VaultId(v1), pdeB)
    /\ ResolvedBy(Tables, VaultId(v1), CodeCands)

\* The tables with every reference as an ingest writes it: no target, typed
\* internal.
Unresolved(db) ==
    [db EXCEPT !.links = [i \in DOMAIN db.links |->
        [db.links[i] EXCEPT !.target_note_id = NULL, !.link_type = "internal"]]]

\* C6: resolve_all_links gives every reference of the vault the type and
\* target it gives it from the unresolved state, whatever the two were
\* before; a reference that ends broken has no target.
C6_FullRecomputation ==
    \A vault_id \in VaultIds : \A listing \in list_notes(notes, vault_id) :
        LET after == resolve_all_links(Tables, vault_id, listing).db
            fresh == resolve_all_links(Unresolved(Tables), vault_id, listing).db
        IN  \A i \in VaultLinks(Tables, vault_id) :
                /\ after.links[i].link_type = fresh.links[i].link_type
                /\ after.links[i].target_note_id = fresh.links[i].target_note_id
                /\ after.links[i].link_type = "broken" =>
                       after.links[i].target_note_id = NULL

\* C7: the nodes of build_graph are the notes of the vault, in every state
\* of the tables.
C7_NodesAreVaultNotes ==
    \A vault_id \in VaultIds :
        build_graph(Tables, vault_id).nodes = VaultNotes(notes, vault_id)

\* The references of the vault typed internal.
InternalLinks(db, vault_id) ==
    {i \in VaultLinks(db, vault_id) : db.links[i].link_type = "internal"}

\* C8: once the references of the vault are resolved, the edges of
\* build_graph are one to one with the internal references of the vault: as
\* many, and each from the source to the target of one of them.
C8_EdgesAreInternalReferences ==
    \A vault_id \in VaultIds : \A listing \in list_notes(notes, vault_id) :
        LET db == resolve_all_links(Tables, vault_id, listing).db
            g  == build_graph(db, vault_id)
        IN  /\ Cardinality(g.edges) = Cardinality(InternalLinks(db, vault_id))
            /\ \A e \in g.edges : \E i \in InternalLinks(db, vault_id) :
                  e = <<db.links[i].source_note_id, db.links[i].target_note_id>>

\* C9: after calculate_metrics the in_degree and out_degree kept for every
\* note of the vault are its degrees in the graph built from the tables.
C9_DegreesPersisted ==
    \A vault_id \in VaultIds : \A failed \in FailureCases :
        LET db == calculate_metrics(Tables, vault_id, failed).db
            g  == build_graph(db, vault_id)
        IN  \A n \in VaultNotes(db.notes, vault_id) :
                /\ n \in DOMAIN db.graph_metrics
                /\ db.graph_metrics[n].in_degree = in_degree(g, n)
                /\ db.graph_metrics[n].out_degree = out_degree(g, n)

\* C9 witness: the vault was ingested, resolved and measured: A links to
\* both B notes, d/B to d/e/B, and the kept degrees say so.
C9_Witness ==
    /\ NoteId(VaultId(v1), pdeB) \in DOMAIN graph_metrics
    /\ graph_metrics[NoteId(VaultId(v1), pA)].computed_at # NULL
    /\ graph_metrics[NoteId(VaultId(v1), pA)].out_degree = 2
    /\ graph_metrics[NoteId(VaultId(v1), pA)].in_degree = 0
    /\ graph_metrics[NoteId(VaultId(v1), pdB)].out_degree = 1
    /\ graph_metrics[NoteId(VaultId(v1), pdeB)].in_degree = 2

\* C10: calculate_metrics returns the density E / (N * (N - 1)) of a graph
\* of N >= 2 nodes and E edges, and the density 0 of a graph of N <= 1
\* nodes, the empty one too.
C10_Density ==
    \A vault_id \in VaultIds : \A failed \in FailureCases :
        LET stats == calculate_metrics(Tables, vault_id, failed).stats
            N == Cardinality(build_graph(Tables, vault_id).nodes)
            E == Cardinality(build_graph(Tables, vault_id).edges)
        IN  /\ "density" \in DOMAIN stats
            /\ N >= 2 => stats.density.num * N * (N - 1) = E * stats.density.den
            /\ N <= 1 => stats.density.num = 0

\* The limits and thresholds a caller gives the hub query.
Limits == 1..MaxLimit

Thresholds == 0..MaxMinLinks

\* C11: a note of a vault is returned as an orphan exactly when both its
\* degrees are 0, and as a hub exactly when the sum of its degrees is
\* min_links or more, unless the limit is reached without it.
C11_HubsAndOrphans ==
    \A vault_id \in VaultIds : \A n \in VaultNotes(notes, vault_id) :
        /\ n \in get_orphan_notes(Tables, vault_id, NULL).notes
              <=> (graph_metrics[n].in_degree = 0 /\ graph_metrics[n].out_degree = 0)
        /\ \A limit \in Limits : \A min_links \in Thresholds :
              \A R \in get_hub_notes(Tables, vault_id, limit, min_links) :
                  /\ n \in R => total_degree(Tables, n) >= min_links
                  /\ (total_degree(Tables, n) >= min_links /\ n \notin R)
                        => Cardinality(R) = limit

\* C12: when computations among PageRank, betweenness, closeness and
\* clustering fail, calculate_metrics still returns its statistics and
\* writes, for every note of the graph, 0.0 for each metric that failed, the
\* computed value for each that did not, and the degrees.
C12_FailuresAbsorbed ==
    \A vault_id \in VaultIds : \A failed \in SUBSET Algorithms :
        LET r == calculate_metrics(Tables, vault_id, failed)
            g == build_graph(Tables, vault_id)
        IN  g.nodes # {} =>
              /\ DOMAIN r.stats = {"notes", "edges", "density"}
              /\ \A n \in g.nodes \cap DOMAIN graph_metrics :
                    /\ \A alg \in Algorithms :
                          r.db.graph_metrics[n][alg] =
                              IF alg \in failed THEN "0.0" ELSE "nx"
                    /\ r.db.graph_metrics[n].in_degree = in_degree(g, n)
                    /\ r.db.graph_metrics[n].out_degree = out_degree(g, n)
                    /\ r.db.graph_metrics[n].computed_at # NULL

\* C12 witness: metrics were written after PageRank failed: 0.0 for it, the
\* computed values for the others, and the degrees of a note with links.
C12_Witness ==
    /\ NoteId(VaultId(v1), pA) \in DOMAIN graph_metrics
    /\ graph_metrics[NoteId(VaultId(v1), pA)].computed_at # NULL
    /\ graph_metrics[NoteId(VaultId(v1), pA)].pagerank = "0.0"
    /\ graph_metrics[NoteId(VaultId(v1), pA)].betweenness = "nx"
    /\ graph_metrics[NoteId(VaultId(v1), pA)].closeness = "nx"
    /\ graph_metrics[NoteId(VaultId(v1), pA)].out_degree = 2

\* The graph of a vault: its notes, and an edge for every internal reference
\* with a target from one of them.
VaultGraph(vault_id) ==
    [nodes |-> VaultNotes(notes, vault_id),
     edges |-> {<<links[i].source_note_id, links[i].target_note_id>> :
                  i \in {j \in InternalLinks(Tables, vault_id) :
                           links[j].target_note_id # NULL}}]

\* S holds both ends of every edge of g it holds one end of.
ClosedIn(g, S) == \A e \in g.edges : e[1] \in S <=> e[2] \in S

\* The connected component of n in the undirected projection of g: the
\* least set of nodes with n that is closed.
ComponentOf(g, n) ==
    {m \in g.nodes : \A S \in SUBSET g.nodes : (n \in S /\ ClosedIn(g, S)) => m \in S}

\* The cluster sizes a caller asks for.
MinSizes == 1..MaxMinSize

\* C13: find_clusters returns the connected components of the undirected
\* projection of the vault's graph with min_size members or more, and no
\* other set; the clusters are pairwise disjoint.
C13_ClustersAreComponents ==
    \A vault_id \in VaultIds : \A min_size \in MinSizes :
        /\ find_clusters(Tables, vault_id, min_size) =
              {c \in {ComponentOf(VaultGraph(vault_id), n) :
                         n \in VaultNotes(notes, vault_id)} :
                  Cardinality(c) >= min_size}
        /\ \A c, d \in find_clusters(Tables, vault_id, min_size) :
              c # d => c \cap d = {}
        /\ vault_id \in DOMAIN vaults =>
              GraphAnalyzer_find_clusters(Tables, vault_id, min_size).clusters
                  = find_clusters(Tables, vault_id, min_size)

\* The radii a caller asks for.
Radii == 0..MaxRadius

\* m is within r hops of n when an edge may be followed in either direction.
RECURSIVE NearBy(_, _, _, _)
NearBy(g, n, m, r) ==
    \/ n = m
    \/ /\ r > 0
       /\ \E e \in g.edges :
             \/ e[2] = m /\ NearBy(g, n, e[1], r - 1)
             \/ e[1] = m /\ NearBy(g, n, e[2], r - 1)

\* The subgraph of g induced by the notes within r hops of n.
InducedNear(g, n, r) ==
    [nodes |-> {m \in g.nodes : NearBy(g, n, m, r)},
     edges |-> {e \in g.edges : NearBy(g, n, e[1], r) /\ NearBy(g, n, e[2], r)}]

\* C14: for every note and radius, get_note_neighborhood and get_ego_graph
\* both return the subgraph induced by the notes within radius hops of the
\* note, edges followed in either direction; the note alone when it has no
\* edge.
C14_Neighborhood ==
    \A n \in DOMAIN notes : \A radius \in Radii :
        LET g == build_graph(Tables, notes[n].vault_id)
        IN  /\ get_note_neighborhood(Tables, n, radius) = InducedNear(g, n, radius)
            /\ get_ego_graph(Tables, n, radius).raised = "none"
            /\ get_ego_graph(Tables, n, radius).graph = InducedNear(g, n, radius)
            /\ (predecessors(g, n) \cup successors(g, n) = {}) =>
                   get_note_neighborhood(Tables, n, radius).nodes = {n}

\* A step in which a call of scan_vault ends with VaultNotFoundError.
NotAVaultStep ==
    \E t \in Tasks :
        /\ task'[t] # task[t]
        /\ task'[t].pc = "idle"
        /\ "raised" \in DOMAIN task'[t]
        /\ task'[t].raised = "VaultNotFoundError"

\* No vault, note or scan record belongs to a path that is not a vault.
NoRowsOfOtherPaths ==
    \A p \in ScanPaths :
        PathKind(p) # "vault" =>
            /\ scan_vault_check(p) = "VaultNotFoundError"
            /\ VaultId(p) \notin DOMAIN vaults
            /\ VaultNotes(notes, VaultId(p)) = {}
            /\ \A i \in DOMAIN scan_history : scan_history[i].vault_id # VaultId(p)

\* C15: scan_vault on a path that does not exist, is no directory or has no
\* .obsidian directory fails with VaultNotFoundError before any write: the
\* step that raises the error changes no table, and no vault, note or scan
\* record of such a path ever exists.
C15_NotAVault ==
    /\ []NoRowsOfOtherPaths
    /\ [][NotAVaultStep => UNCHANGED store]_vars

\* C15 witness: with a vault scanned before, a scan of the directory without
\* .obsidian has ended with VaultNotFoundError.
C15_Witness ==
    /\ Completed(1, v1)
    /\ task["t1"] = Raised("VaultNotFoundError", <<"/", "d">>)
    /\ DOMAIN vaults = {VaultId(v1)}


\* The locations a scan accepts as a vault.
ScanVaults == {v \in ScanPaths : PathKind(v) = "vault"}

\* The files of the vault tree with the note extension and no segment of
\* their path under the vault beginning with a dot.
NoteFiles(v) ==
    {p \in DOMAIN FilesAt(v) : /\ FilesAt(v)[p] # Absent
                               /\ Last(p) = ".md"
                               /\ ~HasHiddenPart(p)}

\* In this step the scan of v ingests the note files of v and no hidden one.
IngestsNoteFiles(v) ==
    ScanStarts(v) =>
        /\ \A p \in NoteFiles(v) :
              Content(FilesAt(v)[p]).readable =>
                  NoteId(VaultId(v), p) \in DOMAIN notes'
        /\ \A n \in VaultNotes(notes', VaultId(v)) : ~HasHiddenPart(notes'[n].path)

\* C16: a scan ingests exactly the files of the vault tree that have the
\* note extension and no path segment beginning with a dot, wherever the
\* vault is on the filesystem: no hidden file becomes a note and every other
\* note file that can be read has its note when the scan has listed and
\* processed the files.
C16_ExactlyNoteFiles == [][\A v \in ScanVaults : IngestsNoteFiles(v)]_vars


\* In this step a scan of v starts and lists a file that fails; the files
\* that can be read have their notes after it and the scan goes on.
SkipsFailedFile(v) ==
    (ScanStarts(v) /\ MdFiles(v) # Readable(v)) =>
        /\ \A p \in Readable(v) :
              LET n == NoteId(VaultId(v), p)
              IN  /\ n \in DOMAIN notes'
                  /\ notes'[n].path = p
                  /\ notes'[n].content_hash = HashContent(disk[v][p])
        /\ \E t \in Tasks : /\ task'[t].pc = "suspended"
                            /\ task'[t].stats.notes_scanned = Cardinality(Readable(v))

\* In this step a scan in which a file failed ends: it returns, and its scan
\* record is completed.
EndsCompleted(t) ==
    (/\ task[t].pc = "suspended"
     /\ task[t].stats.notes_scanned < Len(task[t].md_files)
     /\ task'[t].pc = "idle") =>
        /\ task'[t] = Idle
        /\ scan_history'[task[t].scan_id].status = "completed"
        /\ scan_history'[task[t].scan_id].error_message = NULL

\* C17: a file that fails to parse does not abort the scan: the scan goes
\* on to the next file, every file that is processed has its note, the scan
\* returns and its scan record ends completed.
C17_FileFailureSkipped ==
    [][/\ \A v \in VaultPaths : SkipsFailedFile(v)
       /\ \A t \in Tasks : EndsCompleted(t)]_vars

\* C17 witness: a completed scan of the vault with a file that cannot be
\* parsed and one that can, which has its note.
C17_Witness ==
    /\ disk[v1] = Files("garbled", "plain", Absent)
    /\ Completed(1, v1)
    /\ scan_history[1].notes_scanned = 1
    /\ NoteId(VaultId(v1), pdB) \in DOMAIN notes
    /\ NoteId(VaultId(v1), pA) \notin DOMAIN notes
    /\ task["t1"] = Idle


\* The result the caller receives in this step, which ends the scan of t.
Returned(t) == ScanResult(task[t].vault_id, task[t].vault_path, task[t].stats)

\* The number of files of the scan of t that failed.
FailedFiles(t) == Len(task[t].md_files) - task[t].stats.notes_scanned

\* C18: every file that fails during a scan is reported: the result the
\* caller receives holds one entry in errors for each file that failed, and
\* success is false for a scan in which some file failed.
C18_FailuresReported ==
    [][\A t \in Tasks :
          (task[t].pc = "suspended" /\ task'[t] = Idle) =>
              /\ Len(Returned(t).errors) = FailedFiles(t)
              /\ FailedFiles(t) > 0 => ~success(Returned(t))]_vars


\* This step ends the scan of t with an exception raised to the caller.
ScanRaises(t) ==
    /\ task[t].pc = "suspended"
    /\ task'[t].pc = "idle"
    /\ "raised" \in DOMAIN task'[t]

\* C19: a failure raised during a scan after its scan record was started
\* sets that record to failed with the error message, reaches the caller of
\* VaultManager.scan_vault as ScanError, and leaves the note, reference and
\* tag rows that the batches before it wrote as they are.
C19_ScanFailure ==
    [][\A t \in Tasks :
          ScanRaises(t) =>
              /\ scan_history'[task[t].scan_id].status = "failed"
              /\ scan_history'[task[t].scan_id].error_message = CallbackError
              /\ task'[t].raised = "ScanError"
              /\ UNCHANGED <<vaults, notes, links, tags, note_tags>>
              /\ \A i \in DOMAIN scan_history :
                    i # task[t].scan_id => scan_history'[i] = scan_history[i]]_vars

\* C19 witness: the scan of the vault has failed after its batch wrote the
\* notes, which are still there, and the caller holds ScanError.
C19_Witness ==
    /\ task["t1"] = Raised("ScanError", v1)
    /\ scan_history[1].status = "failed"
    /\ scan_history[1].error_message = CallbackError
    /\ NoteId(VaultId(v1), pA) \in DOMAIN notes
    /\ OutRows(links, NoteId(VaultId(v1), pA)) # <<>>


\* The counts of the scan that task t has started: those it holds while the
\* scan goes on, those of the scan record when the scan has ended.
Counts(t) ==
    IF task[t].pc = "suspended"
    THEN [notes_added |-> task[t].stats.notes_added,
          notes_updated |-> task[t].stats.notes_updated]
    ELSE [notes_added |-> scan_history[Len(scan_history)].notes_added,
          notes_updated |-> scan_history[Len(scan_history)].notes_updated]

\* The files a scan of v started now ingests that have no note yet.
NewFiles(v) == {p \in Readable(v) : NoteId(VaultId(v), p) \notin DOMAIN notes}

\* In this step a scan of v starts: it counts as added the files without a
\* note before it and as updated the others, and with the files unchanged
\* since they were ingested it adds none and the note ids stay.
CountsAdded(t, v) ==
    (ScanStarts(v) /\ task[t].pc = "idle") =>
        /\ Counts(t)'.notes_added = Cardinality(NewFiles(v))
        /\ Counts(t)'.notes_updated = Cardinality(Readable(v) \ NewFiles(v))
        /\ Ingested(v) =>
              /\ Counts(t)'.notes_added = 0
              /\ DOMAIN notes' = DOMAIN notes

\* In this step the scan of t ends and its scan record takes its counts.
CountsRecorded(t) ==
    (task[t].pc = "suspended" /\ task'[t] = Idle) =>
        /\ scan_history'[task[t].scan_id].notes_added = task[t].stats.notes_added
        /\ scan_history'[task[t].scan_id].notes_updated = task[t].stats.notes_updated

\* C20: a scan counts a file as added only when no note of its vault and
\* path existed before the scan, and as updated otherwise; a rescan of a
\* vault whose files did not change reports notes_added = 0 and the note
\* ids are those of the scan before.
C20_RescanAddsNothing ==
    [][\A t \in Tasks : /\ \A v \in VaultPaths : CountsAdded(t, v)
                        /\ CountsRecorded(t)]_vars

\* C20 witness: the vault scanned twice with the same three files: the
\* first scan added three notes, the second added none and updated three.
C20_Witness ==
    /\ disk[v1] = Files("linked", "titled", "plain")
    /\ Completed(1, v1) /\ Completed(2, v1)
    /\ scan_history[1].notes_added = 3
    /\ scan_history[2].notes_added = 0
    /\ scan_history[2].notes_updated = 3
    /\ Cardinality(VaultNotes(notes, VaultId(v1))) = 3


\* This step is a metrics computation pass: it changes graph_metrics alone.
MetricsPass ==
    /\ UNCHANGED <<disk, task, vaults, notes, links, tags, note_tags, scan_history>>
    /\ \E vault_id \in VaultIds, failed \in FailureCases :
          graph_metrics' = calculate_metrics(Tables, vault_id, failed).db.graph_metrics

\* In this step the metrics row of a new note is zero-valued and the row of
\* a note that existed changes in a metrics pass only.
MetricsRowsStep ==
    \A n \in DOMAIN notes' :
        /\ n \notin DOMAIN notes => graph_metrics'[n] = ZeroMetrics
        /\ (n \in DOMAIN notes /\ graph_metrics'[n] # graph_metrics[n]) => MetricsPass

\* C21: every note has exactly one graph_metrics row; the row is zero-valued
\* when the note is created and its values are changed afterwards by a
\* metrics computation pass only: a scan that ingests the note again neither
\* removes nor resets it.
C21_OneMetricsRow ==
    /\ [](DOMAIN graph_metrics = DOMAIN notes)
    /\ [][MetricsRowsStep]_vars

\* C21 witness: the vault scanned again after its metrics were computed:
\* the references are those of the second scan, unresolved, and the metrics
\* row of d/B.md still holds the degree computed before it.
C21_Witness ==
    /\ Completed(1, v1) /\ Completed(2, v1)
    /\ task["t1"] = Idle
    /\ \A i \in DOMAIN links : links[i].target_note_id = NULL
    /\ NoteId(VaultId(v1), pdB) \in DOMAIN graph_metrics
    /\ graph_metrics[NoteId(VaultId(v1), pdB)].in_degree > 0


\* The references typed broken whose source note is of the vault.
BrokenOf(vault_id) ==
    {i \in DOMAIN links : /\ links[i].link_type = "broken"
                          /\ links[i].source_note_id \in VaultNotes(notes, vault_id)}

\* C22: the broken references of a vault, as GraphAnalyzer.get_broken_links
\* and DatabaseManager.get_broken_links return them, are exactly the
\* references typed broken whose source note is of that vault.
C22_BrokenOfVault ==
    \A vault_id \in DOMAIN vaults :
        /\ get_broken_links(Tables, vault_id, NULL).raised = "none"
        /\ {bl.link : bl \in get_broken_links(Tables, vault_id, NULL).links}
              = BrokenOf(vault_id)
        /\ {bl.link : bl \in db_get_broken_links(Tables, vault_id)}
              = BrokenOf(vault_id)


Offsets == 0..MaxLimit

\* A limit or an offset that the caller leaves out (None).
Omitted == 0 - 1

\* The rows of a list at the positions offset .. offset + limit - 1, counted
\* from 0; with no limit the rows from offset onward, with no offset from 0.
Page(o, limit, offset) ==
    LET first == IF offset = Omitted THEN 0 ELSE offset
        last  == IF limit = Omitted THEN Len(o) ELSE Min(first + limit, Len(o))
    IN  SubSeq(o, first + 1, last)

\* C23: the notes of a vault listed with a limit and an offset are, in the
\* order of the titles, the rows at the positions offset .. offset + limit - 1
\* of the whole list; without a limit all rows from the offset onward, and
\* without both all rows.
C23_Pagination ==
    \A vault_id \in DOMAIN vaults :
        \A limit \in Limits \cup {Omitted}, offset \in Offsets \cup {Omitted} :
            /\ get_notes(Tables, vault_id, limit, offset).raised = "none"
            /\ get_notes(Tables, vault_id, limit, offset).notes
                  = {Page(o, limit, offset) : o \in list_notes(notes, vault_id)}


\* A reference that has a target or is typed broken.
Settled(l) == l.target_note_id # NULL \/ l.link_type = "broken"

\* Reference k of note n is settled after this step and was not the same
\* row before it.
NewlySettled(n, k) ==
    /\ k \in DOMAIN OutRows(links', n)
    /\ Settled(OutRows(links', n)[k])
    /\ (k \notin DOMAIN OutRows(links, n) \/ OutRows(links, n)[k] # OutRows(links', n)[k])

\* Every scan in progress has processed the last batch of the files it
\* listed: the notes of the run are written.
AllWritten ==
    \A t \in Tasks :
        task[t].pc = "suspended" => task[t].i + BatchSize >= Len(task[t].md_files)

\* In this step the scan writes the references of the files it ingests
\* unresolved and typed internal, and a reference is settled in a step that
\* is no step of a scan and finds the notes of every scan written.
IngestLeavesUnresolved ==
    /\ \A v \in VaultPaths :
          ScanStarts(v) =>
              \A p \in Readable(v) :
                  OutRows(links', NoteId(VaultId(v), p))
                      = FreshRows(NoteId(VaultId(v), p), disk[v][p])
    /\ \A n \in DOMAIN notes' :
          \A k \in 1..Len(links') :
              NewlySettled(n, k) =>
                  /\ UNCHANGED <<disk, task, notes, scan_history>>
                  /\ AllWritten

ReportsGrow(k) ==
    /\ \A j \in DOMAIN k.reports :
          /\ k.reports[j].total = Len(k.md_files)
          /\ k.reports[j].processed <= k.reports[j].total
          /\ k.reports[j].processed > 0
    /\ \A j \in DOMAIN k.reports :
          j > 1 => k.reports[j].processed > k.reports[j - 1].processed

\* C25: a scan processes the files in batches of at most 50; after each
\* batch it reports (processed, total) through the callback, when it has
\* one, and suspends once; the processed values grow, never pass total, and
\* the last one is total.
C25_Progress ==
    \A t \in Tasks :
        LET k == task[t]
        IN  k.pc \in {"suspended", "returned"} =>
                /\ \A j \in DOMAIN k.batches : k.batches[j] \in 1..BatchSize
                /\ k.sleeps = Len(k.batches)
                /\ Len(k.reports) = IF k.callback THEN Len(k.batches) ELSE 0
                /\ ReportsGrow(k)
                /\ (k.pc = "returned" /\ k.reports # <<>>) =>
                       k.reports[Len(k.reports)].processed = Len(k.md_files)

\* C25 witness: a scan of 101 files has returned after three batches and
\* three reports, the last of them (101, 101).
C25_Witness ==
    /\ task["t1"].pc = "returned"
    /\ task["t1"].batches = <<50, 50, 1>>
    /\ Len(task["t1"].reports) = 3
    /\ task["t1"].reports[3] = [processed |-> 101, total |-> 101]
    /\ task["t1"].sleeps = 3


\* The rows that hang on a note: its row, its references, its tags.
RowsOf(db, n) ==
    [note  |-> IF n \in DOMAIN db.notes THEN {db.notes[n]} ELSE {},
     links |-> OutRows(db.links, n),
     tags  |-> {tag \in Range(db.tags) : <<n, IndexOf(db.tags, tag)>> \in db.note_tags}]

\* The rows of a note as the whole write of its file leaves them.
WrittenWhole(db, n, p, c) ==
    /\ n \in DOMAIN db.notes
    /\ db.notes[n].content_hash = HashContent(c)
    /\ OutRows(db.links, n) = FreshRows(n, c)
    /\ ExtractTags(c) \subseteq RowsOf(db, n).tags

\* C26: a write of a note that fails part-way leaves all of its rows or
\* none: when a database call raises while a file is processed, the store
\* holds the note with all the references and tags of its text, or the rows
\* the note had before.
C26_AtomicWrites ==
    \A v \in VaultPaths :
        \A p \in Readable(v) :
            \A k \in 0..(NumCalls(disk[v][p]) - 1) :
                LET n     == NoteId(VaultId(v), p)
                    after == ProcessFileUntil(Tables, v, VaultId(v), p, k)
                IN  \/ RowsOf(after, n) = RowsOf(Tables, n)
                    \/ WrittenWhole(after, n, p, disk[v][p])


EmptyTables ==
    [vaults |-> <<>>, notes |-> <<>>, links |-> <<>>, tags |-> <<>>,
     note_tags |-> {}, graph_metrics |-> <<>>, scan_history |-> <<>>]

\* A scan of the vault that runs from its start to its end with no other
\* step between its batches.
WholeScan(db, v, md_files) ==
    LET db1 == add_vault(db, PathName(v), v)
        db2 == start_scan(db1, VaultId(v))
        st  == ProcessBatch([db |-> db2, stats |-> ZeroStats], v, VaultId(v), md_files)
    IN  complete_scan(update_vault_scan_time(st.db, VaultId(v)),
                      Len(db2.scan_history), st.stats.notes_scanned,
                      st.stats.notes_added, st.stats.notes_updated, 0)

\* The store after two scans of the big vault, one after the other.
OneAfterTheOther == WholeScan(WholeScan(EmptyTables, BigVault, BigList), BigVault, BigList)

\* Two scans of the big vault have run and ended.
BothEnded ==
    /\ \A t \in Scanners : task[t] = Idle
    /\ Len(scan_history) = 2
    /\ \A i \in 1..2 : Completed(i, BigVault)

\* C27: two scans of one vault that interleave at their suspensions are not
\* kept apart, and an interleaving ends in another store than the two scans
\* one after the other: the vault, note, reference and tag rows are the
\* same, each file is counted as added by exactly one of the scans, and the
\* counts of the scan records are those of the scans in a row or differ from
\* them (C27_Witness).
C27_UnguardedScans ==
    BothEnded =>
        /\ vaults = OneAfterTheOther.vaults
        /\ View(Tables) = View(OneAfterTheOther)
        /\ scan_history[1].notes_added + scan_history[2].notes_added = BigFiles
        /\ \A i \in 1..2 :
              scan_history[i].notes_added + scan_history[i].notes_updated = BigFiles

\* C27 witness: the second scan has passed the first between their batches:
\* the store differs from the one the two scans leave one after the other,
\* whose first scan adds every file.
C27_Witness ==
    /\ BothEnded
    /\ Tables # OneAfterTheOther
    /\ OneAfterTheOther.scan_history[1].notes_added = BigFiles
    /\ scan_history[1].notes_added = BatchSize
    /\ scan_history[2].notes_added = BigFiles - BatchSize


\* The keys that build_note_cache writes for a note.
CacheKeys(row) == {ReplaceMd(row.path), row.title, PathStem(row.path)}

\* The bare file names that two notes of the vault share.
SharedNames(vault_id) ==
    {PathStem(notes[n].path) :
        n \in {m \in VaultNotes(notes, vault_id) :
                  \E o \in VaultNotes(notes, vault_id) :
                      o # m /\ PathStem(notes[o].path) = PathStem(notes[m].path)}}

\* The first note of the listing that writes the key.
FirstWriter(listing, k) ==
    listing[CHOOSE j \in DOMAIN listing :
                /\ k \in CacheKeys(notes[listing[j]])
                /\ \A i \in 1..(j - 1) : k \notin CacheKeys(notes[listing[i]])]

\* C28: a bare file name that two notes of a vault share is kept, in the
\* lookup table, by the note entered first, and a reference written as that
\* name resolves to it: no path, title or file-name entry of a later note
\* takes the key.
C28_FirstWriterWins ==
    \A vault_id \in VaultIds :
        \A listing \in list_notes(notes, vault_id) :
            \A k \in SharedNames(vault_id) :
                LET cache == build_note_cache(<<>>, notes, listing)
                IN  /\ cache[k] = FirstWriter(listing, k)
                    /\ \A n \in VaultNotes(notes, vault_id) :
                          resolve_link(cache, k, notes[n]) = FirstWriter(listing, k)

\* The scan records whose scan is still in progress: a task is suspended in it.
InProgress == {task[t].scan_id : t \in {u \in Tasks : task[u].pc = "suspended"}}

\* C29: every scan record whose scan has ended (returned, raised, or been
\* cancelled where it was suspended) has status completed or failed; none
\* stays running.
C29_NoneStaysRunning ==
    \A i \in DOMAIN scan_history :
        i \notin InProgress => scan_history[i].status \in {"completed", "failed"}


\* C30: calculate_metrics for a registered vault leaves the graph_metrics rows of the
\* notes of every other vault as they are, and reports as its number of
\* notes the number of notes of that vault.
C30_MetricsOfOneVault ==
    \A vault_id \in DOMAIN vaults : \A failed \in FailureCases :
        LET r == calculate_metrics(Tables, vault_id, failed)
        IN  /\ \A n \in DOMAIN graph_metrics :
                  notes[n].vault_id # vault_id => r.db.graph_metrics[n] = graph_metrics[n]
            /\ r.stats.notes = Cardinality(VaultNotes(notes, vault_id))


=============================================================================
